---------------------------- MODULE Spec2Model ----------------------------
(***************************************************************************)
(* DayPlanner (server.py): the task store behind /api/tasks, the reminder  *)
(* thread, and the two TTL caches (market quotes, Windguru weather).       *)
(*                                                                         *)
(* Representation.                                                         *)
(*   - A date string "YYYY-MM-DD" is a day number d (the string is the     *)
(*     fixed-width, zero-padded rendering of d, so Python's string order   *)
(*     on dates is the numeric order on d, and its length is 10 bytes).    *)
(*   - An hour key is the JSON object key, a string ("0", "1", "23");      *)
(*     int(hour_str) is Python's int(hour_str).                            *)
(*   - A task text is represented by the number of bytes its JSON string   *)
(*     literal takes; a task is the record [text |-> n].                   *)
(*   - A sent_reminders key f"{today_str}-{hour_str}" is <<d, hour_str>>.  *)
(***************************************************************************)
EXTENDS Integers, Sequences, FiniteSets, TLC

VARIABLES
    file,            \* tasks.json on disk: [state, data]
    file_lock,       \* threading.Lock: "free", or the thread that holds it
                     \* ("http", "reminder")
    req,             \* the request thread (HTTPServer serves one request at a time)
    response,        \* the last HTTP response written
    evictions,       \* history: the dates dropped by the last save_all_tasks, in order
    clock,           \* datetime.now(): [date, hour]
    rem,             \* the reminder thread: pc and locals of reminder_loop
    sent_reminders,  \* the module-level set of keys
    watch,           \* history: the task-hour key whose notifications are counted
    notified,        \* history: calls of send_reminder_email for the key watch
    failed,          \* history: whether a send for the key watch raised inside
                     \* send_reminder_email (caught and logged there)
    now,             \* time.time(), in seconds
    weather_cache,   \* _weather_cache: [data, ts]
    quotes_cache,    \* _quotes_cache: [data, ts]
    call             \* history: the last fetch_weather / fetch_quotes call:
                     \* [n, api, fetched, up, answer], n alternating with every
                     \* call, up the kind of answer the upstream gave when asked,
                     \* answer what the Windguru upstream answered

storeVars == <<file, file_lock, req, response, evictions>>
remVars   == <<clock, rem, sent_reminders, watch, notified, failed>>
cacheVars == <<now, weather_cache, quotes_cache, call>>
vars      == <<file, file_lock, req, response, evictions,
               clock, rem, sent_reminders, watch, notified, failed,
               now, weather_cache, quotes_cache, call>>

-----------------------------------------------------------------------------
(* Bounds of the model *)

\* Days the clock runs through; also the dates requests address.
MaxDay == 2

\* Most tasks in one PUT body.
MaxTasks == 1

-----------------------------------------------------------------------------
(* Program constants *)

MAX_STORAGE_BYTES == 500 * 1024 * 1024

LastHour == 23

MiB == 1024 * 1024

-----------------------------------------------------------------------------
(* Values *)

\* Python's None where a date, a key or a body is expected.
NoDate == 0

NoKey == <<0, "">>

NoBody == [x \in {"None"} |-> 0]

EmptyMap == [x \in {} |-> 0]

Dates == 1..MaxDay

\* The hour keys requests use, and the hours the clock is observed at.
HourKeys == {"0", "1", "23"}

ClockHours == {0, 22, 23}

\* int(hour_str)
int(hour_str) == CHOOSE h \in 0..LastHour : ToString(h) = hour_str

\* len(hour_str)
KeyLen(hour_str) == IF int(hour_str) < 10 THEN 1 ELSE 2

Keys == Dates \X HourKeys

\* all_tasks.get(date_str, {})
Get(all_tasks, date_str) ==
    IF date_str \in DOMAIN all_tasks THEN all_tasks[date_str] ELSE EmptyMap

\* The task maps a request body can hold: at most `most` tasks, at the given
\* hour keys, with texts of the given sizes.
DayMaps(keys, texts, most) ==
    UNION { [ks -> [text : texts]] :
            ks \in {s \in SUBSET keys : Cardinality(s) <= most} }

-----------------------------------------------------------------------------
(* json.dumps(data, indent=2), by its size in bytes *)

RECURSIVE SumOver(_, _)
SumOver(f, S) ==
    IF S = {} THEN 0
    ELSE LET x == CHOOSE y \in S : TRUE IN f[x] + SumOver(f, S \ {x})

\* {"text": "..."} at nesting depth 2: braces, the indented member, its text.
TaskSize(task) == 24 + task.text

DaySize(day) ==
    IF DOMAIN day = {} THEN 2
    ELSE 6 + 2 * (Cardinality(DOMAIN day) - 1)
         + SumOver([k \in DOMAIN day |-> 4 + KeyLen(k) + 2 + 2 + TaskSize(day[k])],
                   DOMAIN day)

\* len(json.dumps(data, indent=2).encode("utf-8"))
SerializedSize(data) ==
    IF DOMAIN data = {} THEN 2
    ELSE 4 + 2 * (Cardinality(DOMAIN data) - 1)
         + SumOver([d \in DOMAIN data |-> 2 + 12 + 2 + DaySize(data[d])],
                   DOMAIN data)

-----------------------------------------------------------------------------
(* load_all_tasks / save_all_tasks *)

\* What load_all_tasks returns for a file: {} when it is missing or does not parse.
LoadAll(f) == IF f.state = "complete" THEN f.data ELSE EmptyMap

\* The newest date instead of the oldest.
MaxKey(data) == CHOOSE d \in DOMAIN data : \A e \in DOMAIN data : d >= e

\* min(data.keys())
MinKey(data) == CHOOSE d \in DOMAIN data : \A e \in DOMAIN data : d <= e

OverCap(data) == SerializedSize(data) > MAX_STORAGE_BYTES /\ DOMAIN data # {}

\* The cap check as an if: at most one date is dropped.
EnforceCapOnce(data, dropped) ==
    IF OverCap(data)
    THEN LET oldest_date == MinKey(data)
         IN [data |-> [d \in DOMAIN data \ {oldest_date} |-> data[d]],
             dropped |-> Append(dropped, [date |-> oldest_date,
                                          keys |-> DOMAIN data,
                                          size |-> SerializedSize(data)])]
    ELSE [data |-> data, dropped |-> dropped]

\* The while loop of save_all_tasks: [data, dropped], dropped being one record
\* per iteration: the date deleted, the keys and the size it was deleted at.
RECURSIVE EnforceCap(_, _)
EnforceCap(data, dropped) ==
    IF OverCap(data)
    THEN LET oldest_date == MinKey(data)
         IN EnforceCap([d \in DOMAIN data \ {oldest_date} |-> data[d]],
                       Append(dropped, [date |-> oldest_date,
                                        keys |-> DOMAIN data,
                                        size |-> SerializedSize(data)]))
    ELSE [data |-> data, dropped |-> dropped]

-----------------------------------------------------------------------------
(* DayPlannerHandler *)

ReqIdle == [pc |-> "idle", date_str |-> 0, tasks |-> EmptyMap, all_tasks |-> EmptyMap,
            content |-> EmptyMap]

\* _put_tasks with a body that json.loads rejects: 400, nothing loaded or saved.
PutInvalid(d) ==
    /\ req.pc = "idle"
    /\ response' = [status |-> 400, body |-> NoBody]
    /\ UNCHANGED <<file, file_lock, req, evictions>>
    /\ UNCHANGED <<remVars, cacheVars>>

\* No response written: the exception leaves the handler and the connection
\* is closed.
NoResponse == [status |-> 0, body |-> NoBody]

\* _put_tasks with a body that is not text in any encoding json.loads tries
\* (a byte such as 0xff): json.loads raises UnicodeDecodeError, which is not a
\* JSONDecodeError, so the except clause does not catch it.
PutUndecodable(d) ==
    /\ req.pc = "idle"
    /\ response' = NoResponse
    /\ UNCHANGED <<file, file_lock, req, evictions>>
    /\ UNCHANGED <<remVars, cacheVars>>

\* The update on a fresh dict: all_tasks = {date_str: tasks}, the dates loaded
\* forgotten.
PutLoadOnly(d, tasks) ==
    /\ req.pc = "idle"
    /\ file_lock = "free"
    /\ LET updated == IF DOMAIN tasks # {} THEN [x \in {d} |-> tasks] ELSE EmptyMap
       IN req' = [pc |-> "save", date_str |-> d, tasks |-> tasks,
                  all_tasks |-> updated, content |-> EmptyMap]
    /\ UNCHANGED <<file, file_lock, response, evictions>>
    /\ UNCHANGED <<remVars, cacheVars>>

\* The update as all_tasks.setdefault(date_str, tasks): a date already stored
\* keeps its old tasks.
PutLoadKeep(d, tasks) ==
    /\ req.pc = "idle"
    /\ file_lock = "free"
    /\ LET all_tasks == LoadAll(file)
           updated ==
               IF DOMAIN tasks # {}
               THEN [x \in DOMAIN all_tasks \cup {d} |->
                        IF x \in DOMAIN all_tasks THEN all_tasks[x] ELSE tasks]
               ELSE [x \in DOMAIN all_tasks \ {d} |-> all_tasks[x]]
       IN req' = [pc |-> "save", date_str |-> d, tasks |-> tasks,
                  all_tasks |-> updated, content |-> EmptyMap]
    /\ UNCHANGED <<file, file_lock, response, evictions>>
    /\ UNCHANGED <<remVars, cacheVars>>

\* The update without the test of tasks: all_tasks[date_str] = tasks, also
\* for an empty task map.
PutLoadAssign(d, tasks) ==
    /\ req.pc = "idle"
    /\ file_lock = "free"
    /\ LET all_tasks == LoadAll(file)
           updated == [x \in DOMAIN all_tasks \cup {d} |->
                          IF x = d THEN tasks ELSE all_tasks[x]]
       IN req' = [pc |-> "save", date_str |-> d, tasks |-> tasks,
                  all_tasks |-> updated, content |-> EmptyMap]
    /\ UNCHANGED <<file, file_lock, response, evictions>>
    /\ UNCHANGED <<remVars, cacheVars>>

\* _put_tasks up to the call of save_all_tasks: parse, load_all_tasks (the lock
\* taken and released inside it), then the update of the loaded dict.
PutLoad(d, tasks) ==
    /\ req.pc = "idle"
    /\ file_lock = "free"
    /\ LET all_tasks == LoadAll(file)
           updated ==
               IF DOMAIN tasks # {}
               THEN [x \in DOMAIN all_tasks \cup {d} |->
                        IF x = d THEN tasks ELSE all_tasks[x]]
               ELSE [x \in DOMAIN all_tasks \ {d} |-> all_tasks[x]]
       IN req' = [pc |-> "save", date_str |-> d, tasks |-> tasks,
                  all_tasks |-> updated, content |-> EmptyMap]
    /\ UNCHANGED <<file, file_lock, response, evictions>>
    /\ UNCHANGED <<remVars, cacheVars>>

\* save_all_tasks: the lock, the cap loop, and open(DATA_FILE, "w"), which
\* truncates the file before anything is written.
SaveOpen ==
    /\ req.pc = "save"
    /\ file_lock = "free"
    /\ LET r == EnforceCap(req.all_tasks, <<>>)
       IN /\ req' = [req EXCEPT !.pc = "write", !.content = r.data]
          /\ evictions' = r.dropped
    /\ file_lock' = "http"
    /\ file' = [state |-> "torn", data |-> EmptyMap]
    /\ UNCHANGED response
    /\ UNCHANGED <<remVars, cacheVars>>

\* f.write(content), the file closed, the lock released, then the 200 response.
SaveWrite ==
    /\ req.pc = "write"
    /\ file' = [state |-> "complete", data |-> req.content]
    /\ file_lock' = "free"
    /\ response' = [status |-> 200, body |-> NoBody]
    /\ req' = ReqIdle
    /\ UNCHANGED evictions
    /\ UNCHANGED <<remVars, cacheVars>>

\* What _get_tasks answers for a date: load_all_tasks, then .get(date_str, {}).
ReadDay(f, d) == Get(LoadAll(f), d)

\* _get_tasks
GetTasks(d) ==
    /\ req.pc = "idle"
    /\ file_lock = "free"
    /\ response' = [status |-> 200, body |-> ReadDay(file, d)]
    /\ UNCHANGED <<file, file_lock, req, evictions>>
    /\ UNCHANGED <<remVars, cacheVars>>

-----------------------------------------------------------------------------
(* reminder_loop *)

RemSleep(last_cleanup_date) ==
    [pc |-> "sleep", today_str |-> NoDate, hour |-> 0, target_hour |-> 0,
     todo |-> EmptyMap,
     key |-> NoKey, last_cleanup_date |-> last_cleanup_date]

\* target_hour taken as now.hour: the reminder looks at the hour that has begun.
TickStartSameHour ==
    /\ rem.pc = "sleep"
    /\ LET today_str == clock.date
           target_hour == clock.hour
       IN /\ sent_reminders' =
                 IF rem.last_cleanup_date # today_str
                 THEN {k \in sent_reminders : k[1] = today_str}
                 ELSE sent_reminders
          /\ rem' = [RemSleep(today_str) EXCEPT !.pc = "check",
                        !.today_str = today_str, !.hour = clock.hour,
                        !.target_hour = target_hour]
    /\ UNCHANGED <<clock, watch, notified, failed>>
    /\ UNCHANGED <<storeVars, cacheVars>>

\* target_hour wrapped around midnight: (now.hour + 1) % 24.
TickStartWrap ==
    /\ rem.pc = "sleep"
    /\ LET today_str == clock.date
           target_hour == (clock.hour + 1) % (LastHour + 1)
       IN /\ sent_reminders' =
                 IF rem.last_cleanup_date # today_str
                 THEN {k \in sent_reminders : k[1] = today_str}
                 ELSE sent_reminders
          /\ rem' = [RemSleep(today_str) EXCEPT !.pc = "check",
                        !.today_str = today_str, !.hour = clock.hour,
                        !.target_hour = target_hour]
    /\ UNCHANGED <<clock, watch, notified, failed>>
    /\ UNCHANGED <<storeVars, cacheVars>>

\* The top of an iteration: now, the daily cleanup, target_hour.
TickStart ==
    /\ rem.pc = "sleep"
    /\ LET today_str == clock.date
           target_hour == clock.hour + 1
       IN /\ sent_reminders' =
                 IF rem.last_cleanup_date # today_str
                 THEN {k \in sent_reminders : k[1] = today_str}
                 ELSE sent_reminders
          /\ rem' = [RemSleep(today_str) EXCEPT !.pc = "check",
                        !.today_str = today_str, !.hour = clock.hour,
                        !.target_hour = target_hour]
    /\ UNCHANGED <<clock, watch, notified, failed>>
    /\ UNCHANGED <<storeVars, cacheVars>>

\* if target_hour <= 23 is false: nothing is loaded, the thread sleeps.
TickSkip ==
    /\ rem.pc = "check"
    /\ rem.target_hour > LastHour
    /\ rem' = RemSleep(rem.last_cleanup_date)
    /\ UNCHANGED <<clock, sent_reminders, watch, notified, failed>>
    /\ UNCHANGED <<storeVars, cacheVars>>

\* load_all_tasks that keeps file_lock after it returns.
TickLoadKeepLock ==
    /\ rem.pc = "load"
    /\ file_lock = "reminder"
    /\ LET day_tasks == Get(LoadAll(file), rem.today_str)
           todo == [k \in {x \in DOMAIN day_tasks : int(x) = rem.target_hour}
                       |-> day_tasks[k]]
       IN rem' = IF DOMAIN todo = {} THEN RemSleep(rem.last_cleanup_date)
                 ELSE [rem EXCEPT !.pc = "loop", !.todo = todo]
    /\ UNCHANGED <<file, file_lock, req, response, evictions>>
    /\ UNCHANGED <<clock, sent_reminders, watch, notified, failed>>
    /\ UNCHANGED cacheVars

\* if target_hour <= 23 is true: load_all_tasks is entered, with file_lock
\* waits until the lock is free and takes it.
TickLock ==
    /\ rem.pc = "check"
    /\ rem.target_hour <= LastHour
    /\ file_lock = "free"
    /\ file_lock' = "reminder"
    /\ rem' = [rem EXCEPT !.pc = "load"]
    /\ UNCHANGED <<file, req, response, evictions>>
    /\ UNCHANGED <<clock, sent_reminders, watch, notified, failed>>
    /\ UNCHANGED cacheVars

\* The body of load_all_tasks, the lock released as it returns, and
\* all_tasks.get(today_str, {}); todo holds the items of day_tasks the for
\* loop has still to visit with int(hour_str) == target_hour (the other items
\* pass the loop without effect).
TickLoad ==
    /\ rem.pc = "load"
    /\ file_lock = "reminder"
    /\ file_lock' = "free"
    /\ LET day_tasks == Get(LoadAll(file), rem.today_str)
           todo == [k \in {x \in DOMAIN day_tasks : int(x) = rem.target_hour}
                       |-> day_tasks[k]]
       IN rem' = IF DOMAIN todo = {} THEN RemSleep(rem.last_cleanup_date)
                 ELSE [rem EXCEPT !.pc = "loop", !.todo = todo]
    /\ UNCHANGED <<file, req, response, evictions>>
    /\ UNCHANGED <<clock, sent_reminders, watch, notified, failed>>
    /\ UNCHANGED cacheVars

\* The call of send_reminder_email without sent_reminders.add before it.
TickVisitNoMark ==
    /\ rem.pc = "loop"
    /\ \E hour_str \in DOMAIN rem.todo :
          LET key == <<rem.today_str, hour_str>>
              rest == [k \in DOMAIN rem.todo \ {hour_str} |-> rem.todo[k]]
          IN IF key \notin sent_reminders
             THEN /\ sent_reminders' = sent_reminders
                  /\ notified' = IF key = watch THEN notified + 1 ELSE notified
                  /\ rem' = [rem EXCEPT !.pc = "send", !.key = key, !.todo = rest]
             ELSE /\ rem' = IF DOMAIN rest = {} THEN RemSleep(rem.last_cleanup_date)
                            ELSE [rem EXCEPT !.todo = rest]
                  /\ UNCHANGED <<sent_reminders, notified>>
    /\ UNCHANGED <<clock, watch, failed>>
    /\ UNCHANGED <<storeVars, cacheVars>>

\* One matching item: the key test, sent_reminders.add, the call of
\* send_reminder_email (which is then in progress).
TickVisit ==
    /\ rem.pc = "loop"
    /\ \E hour_str \in DOMAIN rem.todo :
          LET key == <<rem.today_str, hour_str>>
              rest == [k \in DOMAIN rem.todo \ {hour_str} |-> rem.todo[k]]
          IN IF key \notin sent_reminders
             THEN /\ sent_reminders' = sent_reminders \cup {key}
                  /\ notified' = IF key = watch THEN notified + 1 ELSE notified
                  /\ rem' = [rem EXCEPT !.pc = "send", !.key = key, !.todo = rest]
             ELSE /\ rem' = IF DOMAIN rest = {} THEN RemSleep(rem.last_cleanup_date)
                            ELSE [rem EXCEPT !.todo = rest]
                  /\ UNCHANGED <<sent_reminders, notified>>
    /\ UNCHANGED <<clock, watch, failed>>
    /\ UNCHANGED <<storeVars, cacheVars>>

\* send_reminder_email returns: the SMTP exchange went through, or raised and
\* was caught and logged inside it.
SendReturn(ok) ==
    /\ rem.pc = "send"
    /\ failed' = IF rem.key = watch /\ ~ok THEN TRUE ELSE failed
    /\ rem' = IF DOMAIN rem.todo = {} THEN RemSleep(rem.last_cleanup_date)
              ELSE [rem EXCEPT !.pc = "loop", !.key = NoKey]
    /\ UNCHANGED <<clock, sent_reminders, watch, notified>>
    /\ UNCHANGED <<storeVars, cacheVars>>

\* Local time passes to the next observed hour, or to the next day.
ClockAdvance ==
    /\ \/ \E h \in ClockHours : h > clock.hour /\ clock' = [clock EXCEPT !.hour = h]
       \/ /\ clock.date < MaxDay
          /\ \E h \in ClockHours : clock' = [date |-> clock.date + 1, hour |-> h]
    /\ UNCHANGED <<rem, sent_reminders, watch, notified, failed>>
    /\ UNCHANGED <<storeVars, cacheVars>>

-----------------------------------------------------------------------------
(* fetch_weather: the Windguru forecast, bucketed by local day *)

\* JSON null in a numeric series; Python's None in a result.
Null == 0 - 999

PyNone == "None"

NoData == [none |-> TRUE]

\* A JSON object is a function on the keys it has. dict.get(k, default)
DictGet(obj, k, default) == IF k \in DOMAIN obj THEN obj[k] ELSE default

\* round(num / den), den > 0: Python 3 rounds halves to the even neighbour.
RoundHalfEven(num, den) ==
    LET q == num \div den
        r == num % den
    IN IF 2 * r < den THEN q
       ELSE IF 2 * r > den THEN q + 1
       ELSE IF q % 2 = 0 THEN q ELSE q + 1

\* str(round(x)) if x is not None else None, x an integer reading
StrRound(x) == IF x = Null THEN PyNone ELSE ToString(x)

dirs == <<"N", "NNE", "NE", "ENE", "E", "ESE", "SE", "SSE",
          "S", "SSW", "SW", "WSW", "W", "WNW", "NW", "NNW">>

\* _wind_dir_label: round(deg / 22.5) % 16
wind_dir_label(deg) ==
    IF deg = Null THEN "" ELSE dirs[(RoundHalfEven(2 * deg, 45) % 16) + 1]

\* _cloud_desc of the value num / den (den = 1 for a single reading)
cloud_desc(num, den) ==
    IF num = Null THEN ""
    ELSE IF num < 10 * den THEN "Clear"
    ELSE IF num < 30 * den THEN "Mostly clear"
    ELSE IF num < 60 * den THEN "Partly cloudy"
    ELSE IF num < 85 * den THEN "Mostly cloudy"
    ELSE "Overcast"

RECURSIVE SeqSum(_)
SeqSum(q) == IF q = <<>> THEN 0 ELSE Head(q) + SeqSum(Tail(q))

SeqMax(q) == CHOOSE x \in {q[i] : i \in 1..Len(q)} : \A j \in 1..Len(q) : q[j] <= x

SeqMin(q) == CHOOSE x \in {q[i] : i \in 1..Len(q)} : \A j \in 1..Len(q) : x <= q[j]

Abs(x) == IF x < 0 THEN 0 - x ELSE x

SecondsPerHour == 3600

SecondsPerDay == 24 * SecondsPerHour

\* No answer of the Windguru upstream: the cache answered, or the call was
\* not a weather call.
NoAnswer == [kind |-> "none", spot |-> EmptyMap, fcst_data |-> EmptyMap]

\* The offset left out: every hour is bucketed by its UTC date.
tz_offset_utc(spot) == 0

\* tz_offset = spot.get("gmt_hour_offset", 0) * 3600
tz_offset(spot) == DictGet(spot, "gmt_hour_offset", 0) * SecondsPerHour

\* The payload fetch_weather returns from its except branch.
Degraded ==
    [location |-> "Auckland",
     current |-> [temp_c |-> PyNone, desc |-> "Unavailable"],
     days |-> EmptyMap]

\* The try block of fetch_weather on the two upstream answers, at time now_ts:
\* [raised, result]. up.kind is "error" when a request fails or times out,
\* "malformed" when a body is not JSON (json.loads raises), "json" when both
\* bodies parse: up.spot and up.fcst_data are then the parsed objects.
\* The series read are TMPE, WINDSPD, WINDDIR and TCDC; a date string is the
\* day number local_ts \div 86400. Readings are integers.
WindguruResult(up, now_ts) ==
    IF up.kind # "json" THEN [raised |-> TRUE, result |-> Degraded]
    ELSE
    LET fcst      == DictGet(up.fcst_data, "fcst", EmptyMap)
        initstamp == DictGet(fcst, "initstamp", 0)
        hours     == DictGet(fcst, "hours", <<>>)
        temps     == DictGet(fcst, "TMPE", <<>>)
        winds     == DictGet(fcst, "WINDSPD", <<>>)
        wdir      == DictGet(fcst, "WINDDIR", <<>>)
        cloud     == DictGet(fcst, "TCDC", <<>>)
        n         == Len(hours)
        local_ts(i)   == initstamp + hours[i] * SecondsPerHour + tz_offset(up.spot)
        date_str(i)   == local_ts(i) \div SecondsPerDay
        local_hour(i) == (local_ts(i) % SecondsPerDay) \div SecondsPerHour
        \* the indices enumerate(hours) puts into daily[d], in order
        Idx(d) == SelectSeq([i \in 1..n |-> i], LAMBDA i : date_str(i) = d)
        \* entry[name]: the readings present at those indices
        Bucket(series, d) ==
            LET sel == SelectSeq(Idx(d),
                                 LAMBDA i : i <= Len(series) /\ series[i] # Null)
            IN [j \in 1..Len(sel) |-> series[sel[j]]]
        hours_local(d) == [j \in 1..Len(Idx(d)) |-> local_hour(Idx(d)[j])]
        \* nearest hour to now: the first index with the least distance
        diff(i) == Abs((initstamp + hours[i] * SecondsPerHour) - now_ts)
        best_i ==
            IF n = 0 THEN 1
            ELSE CHOOSE i \in 1..n :
                    /\ \A j \in 1..n : diff(i) <= diff(j)
                    /\ \A j \in 1..(i - 1) : diff(j) > diff(i)
        cur(series) == IF best_i <= Len(series) THEN series[best_i] ELSE Null
        Summary(d) ==
            LET t  == Bucket(temps, d)
                w  == Bucket(winds, d)
                wd == Bucket(wdir, d)
                c  == Bucket(cloud, d)
                hl == hours_local(d)
                mids == {j \in 1..Len(hl) : 11 <= hl[j] /\ hl[j] <= 14}
                \* mid_idx, as a position in hours_local; 0 for None
                mid_idx == IF mids = {} THEN 0
                           ELSE CHOOSE j \in mids : \A k \in mids : j <= k
                AtMid(q) == mid_idx # 0 /\ mid_idx <= Len(q)
            IN [high |-> IF t # <<>> THEN StrRound(SeqMax(t)) ELSE PyNone,
                low  |-> IF t # <<>> THEN StrRound(SeqMin(t)) ELSE PyNone,
                wind_kmh |->
                    IF AtMid(w) THEN StrRound(w[mid_idx])
                    ELSE IF w # <<>> THEN ToString(RoundHalfEven(SeqSum(w), Len(w)))
                    ELSE "0",
                wind_dir |->
                    wind_dir_label(IF AtMid(wd) THEN wd[mid_idx]
                                   ELSE IF wd # <<>> THEN wd[1] ELSE Null),
                desc |->
                    IF AtMid(c) THEN cloud_desc(c[mid_idx], 1)
                    ELSE IF c # <<>> THEN cloud_desc(SeqSum(c), Len(c))
                    ELSE cloud_desc(Null, 1)]
        days == [d \in {date_str(i) : i \in 1..n} |-> Summary(d)]
    IN [raised |-> FALSE,
        result |->
            [location |-> "Auckland",
             current |-> [temp_c   |-> StrRound(cur(temps)),
                          wind_kmh |-> StrRound(cur(winds)),
                          wind_dir |-> wind_dir_label(cur(wdir)),
                          desc     |-> cloud_desc(cur(cloud), 1)],
             days |-> days]]

-----------------------------------------------------------------------------
(* The two TTL caches *)

WEATHER_TTL == 600

QUOTES_TTL == 120

\* if cache["data"]: a fetched result is a non-empty dict, None is not.
Truthy(data) == data # NoData

\* The kind of answer the Windguru upstream gave.
WeatherKind(up) ==
    IF up.kind # "json" THEN up.kind
    ELSE IF "fcst" \notin DOMAIN up.fcst_data THEN "no_fcst"
    ELSE IF "hours" \notin DOMAIN up.fcst_data["fcst"] THEN "no_hours"
    ELSE "ok"

\* The cache test with <= in place of <.
FetchWeatherInclusive(up) ==
    /\ req.pc = "idle"
    /\ IF Truthy(weather_cache.data) /\ now - weather_cache.ts <= WEATHER_TTL
       THEN /\ response' = [status |-> 200, body |-> weather_cache.data]
            /\ call' = [n |-> 1 - call.n, api |-> "weather", fetched |-> FALSE,
                        up |-> "none", answer |-> NoAnswer]
            /\ UNCHANGED weather_cache
       ELSE LET r == WindguruResult(up, now)
            IN /\ response' = [status |-> 200, body |-> r.result]
               /\ call' = [n |-> 1 - call.n, api |-> "weather", fetched |-> TRUE,
                           up |-> WeatherKind(up), answer |-> up]
               /\ weather_cache' = IF r.raised THEN weather_cache
                                   ELSE [data |-> r.result, ts |-> now]
    /\ UNCHANGED <<file, file_lock, req, evictions, now, quotes_cache>>
    /\ UNCHANGED remVars

\* _get_weather: fetch_weather, then the 200 response with its result. The
\* requests take no time in the model: now_ts is now.
FetchWeather(up) ==
    /\ req.pc = "idle"
    /\ IF Truthy(weather_cache.data) /\ now - weather_cache.ts < WEATHER_TTL
       THEN /\ response' = [status |-> 200, body |-> weather_cache.data]
            /\ call' = [n |-> 1 - call.n, api |-> "weather", fetched |-> FALSE,
                        up |-> "none", answer |-> NoAnswer]
            /\ UNCHANGED weather_cache
       ELSE LET r == WindguruResult(up, now)
            IN /\ response' = [status |-> 200, body |-> r.result]
               /\ call' = [n |-> 1 - call.n, api |-> "weather", fetched |-> TRUE,
                           up |-> WeatherKind(up), answer |-> up]
               /\ weather_cache' = IF r.raised THEN weather_cache
                                   ELSE [data |-> r.result, ts |-> now]
    /\ UNCHANGED <<file, file_lock, req, evictions, now, quotes_cache>>
    /\ UNCHANGED remVars

\* _QUOTE_SYMBOLS, by label
QuoteLabels == {"SPX", "QQQ", "Gold", "BTC"}

\* The body of the for loop of fetch_quotes for one symbol: q.ok is whether the
\* request and the reads of its meta went through; prices are in cents,
\* change_pct in hundredths of a percent.
QuoteOf(q) ==
    IF q.ok
    THEN [price |-> ToString(q.price),
          change_pct |-> IF q.prev # 0
                         THEN ToString(RoundHalfEven((q.price - q.prev) * 10000, q.prev))
                         ELSE ToString(0)]
    ELSE [price |-> PyNone, change_pct |-> PyNone]

QuotesKind(up) ==
    IF \A l \in QuoteLabels : ~up[l].ok THEN "error"
    ELSE IF \A l \in QuoteLabels : up[l].ok THEN "ok"
    ELSE "partial"

\* _get_quotes: fetch_quotes, then the 200 response with its result.
FetchQuotes(up) ==
    /\ req.pc = "idle"
    /\ IF Truthy(quotes_cache.data) /\ now - quotes_cache.ts < QUOTES_TTL
       THEN /\ response' = [status |-> 200, body |-> quotes_cache.data]
            /\ call' = [n |-> 1 - call.n, api |-> "quotes", fetched |-> FALSE,
                        up |-> "none", answer |-> NoAnswer]
            /\ UNCHANGED quotes_cache
       ELSE LET results == [l \in QuoteLabels |-> QuoteOf(up[l])]
            IN /\ response' = [status |-> 200, body |-> results]
               /\ call' = [n |-> 1 - call.n, api |-> "quotes", fetched |-> TRUE,
                           up |-> QuotesKind(up), answer |-> NoAnswer]
               /\ quotes_cache' = [data |-> results, ts |-> now]
    /\ UNCHANGED <<file, file_lock, req, evictions, now, weather_cache>>
    /\ UNCHANGED remVars

-----------------------------------------------------------------------------
(* The server: the request thread, the reminder thread, the clock *)

Init ==
    /\ file = [state |-> "missing", data |-> EmptyMap]
    /\ file_lock = "free"
    /\ req = ReqIdle
    /\ response = [status |-> 0, body |-> NoBody]
    /\ evictions = <<>>
    /\ clock \in [date : {1}, hour : ClockHours]
    /\ rem = RemSleep(NoDate)
    /\ sent_reminders = {}
    /\ watch \in Keys
    /\ notified = 0
    /\ failed = FALSE
    /\ now = 0
    /\ weather_cache = [data |-> NoData, ts |-> 0]
    /\ quotes_cache = [data |-> NoData, ts |-> 0]
    /\ call = [n |-> 0, api |-> "none", fetched |-> FALSE, up |-> "none", answer |-> NoAnswer]

SmallTexts == {1}

\* The dates requests address while the reminder thread runs.
RequestDates == {1, 2}

Next ==
    \/ \E d \in RequestDates, tasks \in DayMaps(HourKeys, SmallTexts, MaxTasks) : PutLoad(d, tasks)
    \/ SaveOpen
    \/ SaveWrite
    \/ TickStart
    \/ TickSkip
    \/ TickLock
    \/ TickLoad
    \/ TickVisit
    \/ \E ok \in BOOLEAN : SendReturn(ok)
    \/ ClockAdvance

Spec == Init /\ [][Next]_vars

-----------------------------------------------------------------------------
(* The store alone, under requests large enough to reach the storage cap *)

\* Text sizes: a short text, one that fits under the cap once but not twice,
\* and one that alone exceeds the cap.
BigTexts == {1, 300 * MiB, 501 * MiB}

StoreKeys == {"1", "23"}

InitStore ==
    /\ Init
    /\ clock = [date |-> 1, hour |-> 0]
    /\ watch = <<1, "1">>

NextStore ==
    \/ \E d \in Dates : PutInvalid(d)
    \/ \E d \in Dates : PutUndecodable(d)
    \/ \E d \in Dates, tasks \in DayMaps(StoreKeys, BigTexts, MaxTasks) : PutLoad(d, tasks)
    \/ SaveOpen
    \/ SaveWrite
    \/ \E d \in Dates : GetTasks(d)

SpecStore == InitStore /\ [][NextStore]_vars

-----------------------------------------------------------------------------
(* The store when the process can die, or a write can fail, at any point *)

\* f.write or the close raises (disk full, I/O error): the with blocks release
\* the file and the lock, the exception leaves the handler, no response is sent.
WriteFails ==
    /\ req.pc = "write"
    /\ file_lock' = "free"
    /\ req' = ReqIdle
    /\ UNCHANGED <<file, response, evictions>>
    /\ UNCHANGED <<remVars, cacheVars>>

\* The process is killed and started again: the file stays as it is on disk,
\* everything in memory starts over.
Crash ==
    /\ file_lock' = "free"
    /\ req' = ReqIdle
    /\ response' = [status |-> 0, body |-> NoBody]
    /\ evictions' = <<>>
    /\ rem' = RemSleep(NoDate)
    /\ sent_reminders' = {}
    /\ notified' = 0
    /\ failed' = FALSE
    /\ weather_cache' = [data |-> NoData, ts |-> 0]
    /\ quotes_cache' = [data |-> NoData, ts |-> 0]
    /\ call' = [n |-> 0, api |-> "none", fetched |-> FALSE, up |-> "none", answer |-> NoAnswer]
    /\ UNCHANGED <<file, clock, watch, now>>

NextCrash ==
    \/ NextStore
    \/ WriteFails
    \/ Crash

SpecCrash == InitStore /\ [][NextCrash]_vars

-----------------------------------------------------------------------------
(* The caches under requests, upstream answers and passing time *)

\* The last instant of the model.
MaxNow == 720

\* The instants requests arrive at: the multiples of the shorter TTL and the
\* second before each, so that ages of ttl - 1, ttl and ttl + 1 all occur.
Times == {t \in 0..MaxNow : t % QUOTES_TTL \in {0, QUOTES_TTL - 1}}

TimePasses ==
    /\ \E t \in Times : t > now /\ now' = t
    /\ UNCHANGED <<weather_cache, quotes_cache, call>>
    /\ UNCHANGED <<storeVars, remVars>>

\* A forecast of two hours (offsets 0 and 3) with the given temperature.
Forecast(temp) ==
    [kind |-> "json",
     spot |-> [gmt_hour_offset |-> 13],
     fcst_data |-> [fcst |-> [initstamp |-> 0, hours |-> <<0, 3>>,
                              TMPE |-> <<temp, temp + 2>>, WINDSPD |-> <<10, 14>>,
                              WINDDIR |-> <<90, 180>>, TCDC |-> <<5, 70>>]]]

\* The answers of the Windguru upstream: a failed request, a body that is
\* not JSON, JSON without the fcst block, a fcst block without hours, and
\* two forecasts that differ.
WeatherUpstream ==
    { [kind |-> "error", spot |-> EmptyMap, fcst_data |-> EmptyMap],
      [kind |-> "malformed", spot |-> EmptyMap, fcst_data |-> EmptyMap],
      [kind |-> "json", spot |-> [gmt_hour_offset |-> 13], fcst_data |-> EmptyMap],
      [kind |-> "json", spot |-> [gmt_hour_offset |-> 13],
       fcst_data |-> [fcst |-> [initstamp |-> 0, TMPE |-> <<18>>]]],
      Forecast(20), Forecast(21) }

Quote(price) == [ok |-> TRUE, price |-> price, prev |-> 10000]

NoQuote == [ok |-> FALSE, price |-> 0, prev |-> 0]

\* The answers of the Yahoo upstream: every request fails, all succeed (at
\* two different prices), one fails and the others succeed.
QuotesUpstream ==
    { [l \in QuoteLabels |-> NoQuote],
      [l \in QuoteLabels |-> Quote(10050)],
      [l \in QuoteLabels |-> Quote(9975)],
      [l \in QuoteLabels |-> IF l = "SPX" THEN NoQuote ELSE Quote(10050)] }

NextCache ==
    \/ \E up \in WeatherUpstream : FetchWeather(up)
    \/ \E up \in QuotesUpstream : FetchQuotes(up)
    \/ TimePasses

SpecCache == InitStore /\ [][NextCache]_vars

-----------------------------------------------------------------------------
(* Properties of the store *)

\* The dates the cap loop of the last save dropped.
Evicted == {evictions[i].date : i \in 1..Len(evictions)}

\* The step on which a PUT's write lands in the file.
WriteCompletes == req.pc = "write" /\ file'.state = "complete"

\* C3, as stated: read_day(d) right after write_day(d, T) completes returns
\* exactly T (the empty mapping when T is empty).
ReadAfterWriteExact ==
    [][WriteCompletes => ReadDay(file', req.date_str) = req.tasks]_vars

\* C3, amended: read_day(d) right after write_day(d, T) completes returns T,
\* unless the cap loop of that same write dropped d, and then it returns the
\* empty mapping.
ReadAfterWriteUnlessEvicted ==
    [][WriteCompletes =>
          ReadDay(file', req.date_str) =
              IF req.date_str \in Evicted THEN EmptyMap ELSE req.tasks]_vars

\* A write of a non-empty day is about to land after its cap loop dropped
\* another date and kept the date written.
ReadAfterWriteWitness ==
    /\ req.pc = "write"
    /\ DOMAIN req.tasks # {}
    /\ Evicted # {}
    /\ req.date_str \in DOMAIN req.content

\* C4: the cap loop drops a date only while the serialized store exceeds the
\* cap, each date dropped is the smallest key present at that moment, and a
\* store at or under the cap loses no date to it.
EvictOldestOnlyOverCap ==
    /\ \A i \in 1..Len(evictions) :
          /\ evictions[i].size > MAX_STORAGE_BYTES
          /\ evictions[i].date \in evictions[i].keys
          /\ \A k \in evictions[i].keys : evictions[i].date <= k
    /\ req.pc = "write" =>
          LET gone == DOMAIN req.all_tasks \ DOMAIN req.content
          IN /\ gone = Evicted
             /\ DOMAIN req.content \subseteq DOMAIN req.all_tasks
             /\ SerializedSize(req.all_tasks) <= MAX_STORAGE_BYTES => gone = {}
             /\ \A g \in gone, k \in DOMAIN req.content : g < k
             /\ \A k \in DOMAIN req.content : req.content[k] = req.all_tasks[k]

\* A save whose cap loop dropped an older date and kept a newer one.
EvictOldestWitness ==
    /\ req.pc = "write"
    /\ Len(evictions) >= 1
    /\ DOMAIN req.content # {}

\* C5: the store a completed write leaves in the file serializes to at most
\* the cap.
PersistedUnderCap ==
    file.state = "complete" => SerializedSize(file.data) <= MAX_STORAGE_BYTES

\* A completed write whose cap loop dropped every date: the new day alone was
\* over the cap, and the file holds the empty store.
PersistedUnderCapWitness ==
    /\ file.state = "complete"
    /\ req.pc = "idle"
    /\ Len(evictions) = 2
    /\ DOMAIN file.data = {}

-----------------------------------------------------------------------------
(* Properties of the reminder thread *)

\* C1: within one process and one calendar day send_reminder_email is called
\* at most once for a task-hour (date, hour), and a send that failed leaves
\* the key in sent_reminders for the rest of that day, so it is not retried.
AtMostOncePerTaskHour ==
    /\ notified <= 1
    /\ (failed /\ rem.last_cleanup_date = watch[1]) => watch \in sent_reminders

\* A later tick of the same hour window runs after the send for the watched
\* key failed: the key is still Sent and the count is still one.
AtMostOnceWitness ==
    /\ failed
    /\ notified = 1
    /\ rem.pc = "loop"
    /\ rem.today_str = watch[1]
    /\ watch[2] \in DOMAIN rem.todo

\* The tick has loaded today's tasks, the watched task-hour is among them, it
\* is the hour after the hour the tick observed, and its key is Unsent.
Due ==
    /\ rem.pc = "loop"
    /\ rem.today_str = watch[1]
    /\ rem.hour + 1 = int(watch[2])
    /\ watch[2] \in DOMAIN rem.todo
    /\ watch \notin sent_reminders

\* C2: a tick that loads today's tasks on date d while they hold a task at
\* hour h, with current_hour + 1 = h and the key (d, h) Unsent, calls the
\* notification for that task as its next step, once; and no call for that
\* task-hour is made from any other tick.
TickNotifiesDueTask ==
    [][/\ ( /\ rem.pc = "load" /\ rem'.pc # "load"
            /\ rem.today_str = watch[1]
            /\ rem.hour + 1 = int(watch[2])
            /\ watch[2] \in DOMAIN ReadDay(file, watch[1])
            /\ watch \notin sent_reminders ) => Due'
       /\ (Due /\ rem' # rem) =>
              /\ notified' = notified + 1
              /\ rem'.pc = "send"
              /\ rem'.key = watch
       /\ notified' # notified => (Due /\ notified' = notified + 1)]_vars

\* The call for the watched task-hour is in progress, made by the tick that
\* found it due.
TickNotifiesWitness ==
    /\ rem.pc = "send"
    /\ rem.key = watch
    /\ rem.hour + 1 = int(watch[2])
    /\ notified = 1

\* C6, as stated: the mutual-exclusion region covers the whole
\* load-modify-evict-persist cycle of a PUT, so that PUTs running together
\* lose no update: from its load to its write a PUT holds the lock.
PutCycleHoldsLock == req.pc \in {"save", "write"} => file_lock = "http"

\* C7, as stated: whenever a reader can load the file (the lock is free, also
\* after the process died or a write failed), the file holds a complete
\* store, never a truncated or partly written one.
NeverTornForReader == file_lock = "free" => file.state # "torn"

-----------------------------------------------------------------------------
(* Properties of the caches *)

\* A step that is a call of the given fetch function.
CallOf(api) == call'.n # call.n /\ call'.api = api

\* What the ttl cache contract asks of a call that finds the entry `cache`
\* with the given ttl: an entry younger than ttl is returned as it is and the
\* upstream is not asked; an entry of age ttl or more makes the call ask it.
ServedWithinTtl(cache, cacheAfter, ttl) ==
    /\ (Truthy(cache.data) /\ now - cache.ts < ttl) =>
          /\ ~call'.fetched
          /\ response'.body = cache.data
          /\ cacheAfter = cache
    /\ (Truthy(cache.data) /\ now - cache.ts >= ttl) => call'.fetched

\* C8: for the weather cache (600 s) and the quotes cache (120 s), after a
\* fetch stored at time t every call at a time now with now - t < ttl returns
\* the cached value without asking the upstream, whatever the upstream would
\* answer now, and the first call with now - t >= ttl asks the upstream again.
CachedUntilTtl ==
    [][/\ CallOf("weather") => ServedWithinTtl(weather_cache, weather_cache', WEATHER_TTL)
       /\ CallOf("quotes") => ServedWithinTtl(quotes_cache, quotes_cache', QUOTES_TTL)]_vars

\* A weather call answered from the cache one second before the entry expires,
\* and the quotes entry refetched at an age of exactly its ttl.
CachedUntilTtlWitness ==
    /\ call.api = "weather"
    /\ ~call.fetched
    /\ now - weather_cache.ts = WEATHER_TTL - 1
    /\ Truthy(quotes_cache.data)
    /\ quotes_cache.ts = QUOTES_TTL

\* C9, as stated: a call whose upstream fetch fails (the weather requests
\* fail or answer a body that is not JSON; every quote request fails) leaves
\* value and fetched_at of its cache as they were, for both caches.
FailedFetchNotStored ==
    [][/\ (CallOf("weather") /\ call'.up \in {"error", "malformed"}) =>
              weather_cache' = weather_cache
       /\ (CallOf("quotes") /\ call'.up = "error") =>
              quotes_cache' = quotes_cache]_vars

\* C10, as stated: after a weather call whose upstream failed altogether (a
\* failed request, a body that is not JSON, a body without the fcst block or
\* without the hours series), the answer is the degraded payload: temp_c
\* null, desc "Unavailable", no days.
WeatherFailureDegraded ==
    (call.api = "weather" /\ call.up \in {"error", "malformed", "no_fcst", "no_hours"}) =>
        /\ response.body.current.temp_c = PyNone
        /\ response.body.current.desc = "Unavailable"
        /\ DOMAIN response.body.days = {}

-----------------------------------------------------------------------------
(* Properties of the reminder thread at the ends of the day *)

\* C11: a tick that observed now.hour = 23 calls send_reminder_email for no
\* task, a task at hour 23 included: its target_hour is 24, it gets no
\* further than the range test, and nothing is loaded or sent.
NoReminderAtLastHour ==
    rem.hour = LastHour =>
        /\ rem.pc = "check"
        /\ rem.target_hour > LastHour

\* A tick has observed hour 23 while today's stored tasks hold a task at hour
\* 23 whose key is Unsent.
NoReminderAtLastHourWitness ==
    /\ rem.pc = "check"
    /\ rem.hour = LastHour
    /\ "23" \in DOMAIN ReadDay(file, rem.today_str)
    /\ <<rem.today_str, "23">> \notin sent_reminders

-----------------------------------------------------------------------------
(* The server when the watched task-hour is only ever submitted late *)

\* The reminder window of the watched task-hour (d, h), now.hour = h - 1 on
\* date d, has passed: it is date d at hour h or later, or a later date.
WindowPassed ==
    \/ clock.date > watch[1]
    \/ clock.date = watch[1] /\ clock.hour >= int(watch[2])

\* The requests of Next, a body holding the watched task-hour arriving only
\* after its window has passed; the store starts empty, so the task is first
\* written then.
NextLate ==
    \/ \E d \in RequestDates, tasks \in DayMaps(HourKeys, SmallTexts, MaxTasks) :
          /\ (d = watch[1] /\ watch[2] \in DOMAIN tasks) => WindowPassed
          /\ PutLoad(d, tasks)
    \/ SaveOpen
    \/ SaveWrite
    \/ TickStart
    \/ TickSkip
    \/ TickLock
    \/ TickLoad
    \/ TickVisit
    \/ \E ok \in BOOLEAN : SendReturn(ok)
    \/ ClockAdvance

SpecLate == Init /\ [][NextLate]_vars

\* C12, as stated: a task for today at hour h first written to the store
\* when current_hour >= h is never notified that day, under any interleaving
\* of the write with the steps of a tick.
LateTaskNeverNotified == notified = 0

-----------------------------------------------------------------------------
(* Properties of a PUT's update *)

\* C13: starting from the empty store, no date of the persisted store maps
\* to an empty task map: a PUT of an empty task map for a date removes the
\* date, from the dict it saves and from the content it writes, and a PUT of
\* a non-empty task map puts that whole map in the date's place.
NoEmptyDayPersists ==
    /\ file.state = "complete" =>
          \A d \in DOMAIN file.data : DOMAIN file.data[d] # {}
    /\ req.pc \in {"save", "write"} =>
          IF DOMAIN req.tasks = {}
          THEN req.date_str \notin DOMAIN req.all_tasks
          ELSE req.all_tasks[req.date_str] = req.tasks
    /\ (req.pc = "write" /\ DOMAIN req.tasks = {}) =>
          req.date_str \notin DOMAIN req.content

\* A PUT of an empty task map for a date the file holds tasks for has
\* applied its update and is about to save.
NoEmptyDayWitness ==
    /\ req.pc = "save"
    /\ DOMAIN req.tasks = {}
    /\ file.state = "complete"
    /\ req.date_str \in DOMAIN file.data
    /\ DOMAIN req.all_tasks # {}

-----------------------------------------------------------------------------
(* Properties of a PUT whose body does not parse *)

\* A step that ends a PUT at json.loads: the request thread neither loads nor
\* saves, and what the client gets carries no body of tasks.
BodyRefused ==
    /\ req.pc = "idle"
    /\ req' = req
    /\ response' # response
    /\ response'.body = NoBody

\* C14, as stated: a PUT whose body is not valid JSON is answered with a
\* client error (400) and leaves the persisted store exactly as it was.
InvalidBodyRejected ==
    [][BodyRefused => (response'.status = 400 /\ file' = file)]_vars

-----------------------------------------------------------------------------
(* The reminder thread when an iteration can raise *)

\* The exception handler that lets the exception through: the thread ends.
TickDies ==
    /\ rem.pc = "except"
    /\ rem' = [rem EXCEPT !.pc = "dead"]
    /\ UNCHANGED <<clock, sent_reminders, watch, notified, failed>>
    /\ UNCHANGED <<storeVars, cacheVars>>

\* An exception raised inside the try block of an iteration, outside the try
\* of send_reminder_email: by load_all_tasks (a file that cannot be decoded;
\* the with statement releases the lock), or by the for loop (int(hour_str)
\* of a key that is no number, task["text"] of a task without text).
TickRaise ==
    /\ rem.pc \in {"load", "loop"}
    /\ rem' = [rem EXCEPT !.pc = "except", !.todo = EmptyMap]
    /\ file_lock' = IF rem.pc = "load" THEN "free" ELSE file_lock
    /\ UNCHANGED <<file, req, response, evictions>>
    /\ UNCHANGED <<clock, sent_reminders, watch, notified, failed>>
    /\ UNCHANGED cacheVars

\* except Exception: the error is printed, and the thread goes on to
\* time.sleep(60).
TickCatch ==
    /\ rem.pc = "except"
    /\ rem' = RemSleep(rem.last_cleanup_date)
    /\ UNCHANGED <<clock, sent_reminders, watch, notified, failed>>
    /\ UNCHANGED <<storeVars, cacheVars>>

\* The evening of one day, a task at hour 23 watched.
InitFaulty ==
    /\ Init
    /\ clock = [date |-> 1, hour |-> 22]
    /\ watch = <<1, "23">>

NextFaulty ==
    \/ Next
    \/ TickRaise
    \/ TickCatch

\* time.sleep(60) returns and the next iteration begins; the except clause
\* returns. Nothing is assumed of the requests, the lock or the SMTP server.
SpecFaulty ==
    /\ InitFaulty
    /\ [][NextFaulty]_vars
    /\ WF_vars(TickStart)
    /\ WF_vars(TickCatch)

\* C15: an error raised inside a tick, while loading the tasks or in the
\* loop over them, is caught: the thread goes to sleep with sent_reminders
\* and last_cleanup_date as they were; a failed send returns into the loop;
\* and after every tick that ended, by an error or not, a next tick begins.
ErrorsDoNotStopTheLoop ==
    /\ [][rem.pc = "except" =>
             /\ rem'.pc \in {"except", "sleep"}
             /\ rem'.last_cleanup_date = rem.last_cleanup_date
             /\ sent_reminders' = sent_reminders]_vars
    /\ [][(rem.pc = "send" /\ rem' # rem) => rem'.pc \in {"loop", "sleep"}]_vars
    /\ (rem.pc \in {"except", "sleep"}) ~> (rem.pc = "check")

\* An error has been raised in a tick, after an earlier send for the watched
\* task had failed, and is about to be caught.
ErrorsDoNotStopWitness ==
    /\ rem.pc = "except"
    /\ failed
    /\ file_lock = "free"

-----------------------------------------------------------------------------
(* fetch_weather on forecasts that span two local days *)

\* A model run started at 06:00 UTC of day 20.
InitStamp == 20 * SecondsPerDay + 6 * SecondsPerHour

\* Three-hourly forecast hours: with an offset of +13 h they fall on the
\* local hours 19, 22 of one day and 1, 4, ..., 22 of the next; with -5 h on
\* the local hours 1, 4, ..., 22 of one day and 1, 4 of the next.
ForecastHours == <<0, 3, 6, 9, 12, 15, 18, 21, 24, 27>>

\* A series with the entries at the given indices absent (JSON null).
Without(series, gaps) ==
    [i \in 1..Len(series) |-> IF i \in gaps THEN Null ELSE series[i]]

\* Temperature series: complete, with absent entries, and shorter than hours.
TempSeries ==
    { <<12, 11, 9, 8, 10, 14, 18, 17, 13, 11>>,
      Without(<<12, 11, 9, 8, 10, 14, 18, 17, 13, 11>>, {1, 7}),
      <<12, 19, 9>> }

\* The indices at which wind speed, wind direction and cloud cover are absent.
GapSets == { {}, {3}, {10} }

ForecastSeries ==
    { [kind |-> "json",
       spot |-> [gmt_hour_offset |-> tz],
       fcst_data |->
           [fcst |-> [initstamp |-> InitStamp,
                      hours |-> ForecastHours,
                      TMPE |-> temps,
                      WINDSPD |-> Without(<<10, 12, 14, 16, 18, 20, 22, 24, 26, 28>>, gaps),
                      WINDDIR |-> Without(<<0, 45, 90, 135, 180, 225, 270, 315, 0, 45>>, gaps),
                      TCDC |-> Without(<<5, 20, 40, 70, 90, 5, 20, 40, 70, 90>>, gaps)]]] :
      tz \in {13, 0 - 5}, temps \in TempSeries, gaps \in GapSets }

NextForecast ==
    \/ \E up \in ForecastSeries : FetchWeather(up)
    \/ TimePasses

SpecForecast == InitStore /\ [][NextForecast]_vars

\* The last call asked the upstream and got a forecast.
GotForecast == call.api = "weather" /\ call.fetched /\ call.up = "ok"

\* The local date and the local hour of forecast hour i of an answer.
LocalTime(up, i) ==
    up.fcst_data["fcst"].initstamp
        + up.fcst_data["fcst"].hours[i] * 3600
        + up.spot.gmt_hour_offset * 3600

LocalDate(up, i) == LocalTime(up, i) \div 86400

LocalHour(up, i) == (LocalTime(up, i) % 86400) \div 3600

\* The hour indices of an answer that fall on local date d.
HoursOn(up, d) ==
    {i \in 1..Len(up.fcst_data["fcst"].hours) : LocalDate(up, i) = d}

\* Whether a series has an entry at index i that is present.
Present(series, i) == i <= Len(series) /\ series[i] # Null

\* C16: for a forecast whose hours span two local days under a nonzero
\* timezone offset, the days reported are the dates of
\* initstamp + hours[i] * 3600 + tz_offset, and each day's high and low are
\* the maximum and the minimum of the temperatures present at exactly the
\* hours of that date, at the reporting precision (whole degrees, as text).
BucketedByLocalDate ==
    GotForecast =>
        LET up == call.answer
            f == up.fcst_data["fcst"]
            days == response.body.days
            temps(d) == {f.TMPE[i] : i \in {j \in HoursOn(up, d) : Present(f.TMPE, j)}}
        IN /\ DOMAIN days = {LocalDate(up, i) : i \in 1..Len(f.hours)}
           /\ \A d \in DOMAIN days :
                 IF temps(d) = {}
                 THEN days[d].high = PyNone /\ days[d].low = PyNone
                 ELSE /\ \E t \in temps(d) :
                            /\ \A x \in temps(d) : x <= t
                            /\ days[d].high = ToString(t)
                      /\ \E t \in temps(d) :
                            /\ \A x \in temps(d) : t <= x
                            /\ days[d].low = ToString(t)

\* A forecast was fetched whose hours fall on two local dates under a
\* nonzero offset, with a temperature absent on one of them, and the two
\* days reported have different highs.
BucketedWitness ==
    /\ GotForecast
    /\ call.answer.spot.gmt_hour_offset # 0
    /\ ~Present(call.answer.fcst_data["fcst"].TMPE, 7)
    /\ \E d, e \in DOMAIN response.body.days :
          /\ d # e
          /\ response.body.days[d].high # response.body.days[e].high
          /\ response.body.days[d].high # PyNone
          /\ response.body.days[e].high # PyNone

\* The midday hour of local date d in an answer: the first forecast hour of
\* that date whose local hour is in [11, 14]; 0 when there is none.
MiddayHour(up, d) ==
    LET mids == {i \in HoursOn(up, d) : 11 <= LocalHour(up, i) /\ LocalHour(up, i) <= 14}
    IN IF mids = {} THEN 0 ELSE CHOOSE i \in mids : \A j \in mids : i <= j

\* C18, as stated: for every day with a forecast hour at a local hour in
\* [11, 14], the day's wind speed, wind direction and cloud description are
\* the values of the series at the first such hour, also when entries of
\* earlier hours of that day are absent.
MiddaySampledAtMiddayHour ==
    GotForecast =>
        LET up == call.answer
            f == up.fcst_data["fcst"]
            days == response.body.days
        IN \A d \in DOMAIN days :
              LET m == MiddayHour(up, d)
              IN (m # 0 /\ Present(f.WINDSPD, m) /\ Present(f.WINDDIR, m)
                        /\ Present(f.TCDC, m)) =>
                     /\ days[d].wind_kmh = ToString(f.WINDSPD[m])
                     /\ days[d].wind_dir = wind_dir_label(f.WINDDIR[m])
                     /\ days[d].desc = cloud_desc(f.TCDC[m], 1)

-----------------------------------------------------------------------------
(* Properties of the reminder thread and the store together *)

\* C17: the reminder thread holds file_lock only inside load_all_tasks, never
\* while send_reminder_email is in progress: during a send the lock is free
\* or held by the request thread, and a PUT that has loaded can enter
\* save_all_tasks.
LockFreeWhileSending ==
    /\ file_lock = "reminder" <=> rem.pc = "load"
    /\ rem.pc = "send" => file_lock \in {"free", "http"}
    /\ (rem.pc = "send" /\ req.pc = "save") => ENABLED SaveOpen

\* A PUT took the lock and is writing the file while a send is in progress.
LockFreeWhileSendingWitness ==
    /\ rem.pc = "send"
    /\ req.pc = "write"
    /\ file_lock = "http"

-----------------------------------------------------------------------------
(* The store and the reminder thread under requests that reach the cap *)

\* The evening of one day: PUTs large enough to reach the cap, and the
\* reminder thread at hour 22.
NextFrame ==
    \/ \E d \in Dates, tasks \in DayMaps(StoreKeys, BigTexts, MaxTasks) : PutLoad(d, tasks)
    \/ SaveOpen
    \/ SaveWrite
    \/ TickStart
    \/ TickLock
    \/ TickLoad
    \/ TickVisit
    \/ \E ok \in BOOLEAN : SendReturn(ok)

SpecFrame == InitFaulty /\ [][NextFrame]_vars

\* C19: a PUT for date d leaves the task map of every other date as it was:
\* its update changes no other date of the dict it loaded, its cap loop
\* takes away only the dates it drops, and its write puts exactly that
\* content in the file; and no step of the reminder thread changes the file
\* or the request in progress.
WriteFrame ==
    [][/\ (req.pc = "idle" /\ req'.pc = "save") =>
              \A e \in Dates \ {req'.date_str} :
                  /\ e \in DOMAIN req'.all_tasks <=> e \in DOMAIN LoadAll(file)
                  /\ Get(req'.all_tasks, e) = ReadDay(file, e)
       /\ (req.pc = "save" /\ req'.pc = "write") =>
              /\ DOMAIN req'.content = DOMAIN req.all_tasks \ {evictions'[i].date : i \in 1..Len(evictions')}
              /\ \A e \in DOMAIN req'.content : req'.content[e] = req.all_tasks[e]
       /\ WriteCompletes => file'.data = req.content
       /\ rem' # rem => (file' = file /\ req' = req)]_vars

\* A PUT is writing a store that keeps a date other than its own while a
\* send of the reminder thread is in progress.
WriteFrameWitness ==
    /\ req.pc = "write"
    /\ \E e \in DOMAIN req.content : e # req.date_str
    /\ rem.pc = "send"

-----------------------------------------------------------------------------
(* The reminder thread and the first hour of the day *)

\* C20: send_reminder_email is never called for a task at hour 0: no call in
\* progress is for a key of hour 0, no such key is ever in sent_reminders,
\* and the call count of a watched (date, "0") stays 0.
HourZeroNeverReminded ==
    /\ rem.pc = "send" => int(rem.key[2]) >= 1
    /\ \A k \in sent_reminders : int(k[2]) # 0
    /\ watch[2] = "0" => notified = 0

\* A tick that observed hour 0 of the watched task's date is loading the
\* store while it holds the watched task at hour 0.
HourZeroWitness ==
    /\ watch[2] = "0"
    /\ rem.pc = "load"
    /\ rem.hour = 0
    /\ rem.today_str = watch[1]
    /\ "0" \in DOMAIN ReadDay(file, watch[1])

=============================================================================
